---- MODULE Spec2Model ----
(***************************************************************************)
(* Model of the mutagen synchronization endpoint.                          *)
(*                                                                         *)
(*   Spec       localEndpoint (pkg/session/endpoint_local.go): concurrent  *)
(*              callers of scan, the background cache write Goroutine that *)
(*              scan spawns and the scan lock ("local"); its stage and     *)
(*              transition methods, the rsync receiver and the stager      *)
(*              ("stage"); and ServeEndpoint (session/endpoint.go):        *)
(*              initialization, the four serving Goroutines, their error   *)
(*              channels and the control loop with its scan, stage and     *)
(*              transition handlers ("serve"); and its poll and shutdown   *)
(*              methods with the watcher ("poll").  A run exercises one of *)
(*              the four.                                                  *)
(*   FairServe  ServeEndpoint alone, with the fairness of the Go scheduler *)
(*              and of I/O on a closed connection.                         *)
(*   FairLocal  the callers of scan and the background cache write alone,  *)
(*              with the fairness of the Go scheduler and of sync.Mutex.   *)
(*   FairPoll   the callers of poll and shutdown and the watcher ("poll"), *)
(*              with the fairness of the Go scheduler.                     *)
(***************************************************************************)
EXTENDS Integers, Sequences, FiniteSets, TLC

\* ------------------------------------------------------------------------
\* Bounds
\* ------------------------------------------------------------------------
\* number of localEndpoint.scan calls made over a run
MaxScans == 3
\* number of localEndpoint.transition calls made over a run
MaxTransitions == 1
\* largest number of problems a transition reports
MaxProblems == 1
\* number of localEndpoint.stage calls made over a run
MaxStages == 3
\* largest number of paths in a stage call
MaxPaths == 2

\* number of localEndpoint.poll calls made over a run
MaxPolls == 3
\* number of events the watcher sends over a run
MaxEvents == 2

\* number of requests the controller sends on the control channel
MaxRequests == 2

\* Goroutines of the controller that call into the local endpoint
Callers == {1, 2}
\* the Goroutine of the controller that stages and applies changes
Synchronizers == {1}
\* digests of file contents that the rsync receiver can store in the stager
Digests == {"d1"}
\* paths and entry digests that the controller passes to localEndpoint.stage
Paths == {"a", "b"}
EntryDigests == {"d1", "d2"}

\* ------------------------------------------------------------------------
\* Errors (github.com/pkg/errors): an error is the sequence of its messages,
\* outermost first; the nil error is the empty sequence.
\* ------------------------------------------------------------------------
Nil == <<>>

New(msg) == <<msg>>

Wrap(err, msg) == IF err = Nil THEN Nil ELSE <<msg>> \o err

\* ------------------------------------------------------------------------
\* State of the local endpoint
\* ------------------------------------------------------------------------
VARIABLES
    scanLock,          \* localEndpoint.scanLock: TRUE while locked
    cacheWriteError,   \* localEndpoint.cacheWriteError
    cache,             \* localEndpoint.cache: 0 is the cache loaded at
                       \* construction, n > 0 the cache built by scan call n
    ignoreCache,       \* localEndpoint.ignoreCache, numbered like cache
    recomposeUnicode,  \* localEndpoint.recomposeUnicode
    cacheFile,         \* content of the file at cachePath, numbered like cache
    stagerFiles,       \* digests the stager can provide
    fatal,             \* the runtime aborted: unlock of an unlocked mutex
    pc,                \* position of each caller
    frame,             \* locals of each caller's current call; base and baseFile
                       \* are the cache given to sync.Scan and the content of
                       \* the cache file at that time, stager what the stager
                       \* could provide when stage looked or transition wiped,
                       \* prev the caller's previous call
    ret,               \* what each caller's last call returned, until its next
                       \* call; cacheFile is the content of the cache file at
                       \* the time of the return
    writers,           \* background Goroutines spawned by scan
    scanCount,         \* scan calls started so far
    transitionCount,   \* transition calls started so far
    stageCount,        \* stage calls started so far
    scannerRuns,       \* invocations of sync.Scan so far
    watch              \* the watcher of the endpoint: events is the number
                       \* of events pending in the watchEvents channel,
                       \* cancelled whether watchCancel was called, closed
                       \* whether the channel is closed, sent and received
                       \* the events sent and received so far, polls the poll
                       \* calls started so far

localVars == <<scanLock, cacheWriteError, cache, ignoreCache, recomposeUnicode,
               cacheFile, stagerFiles, fatal, pc, frame, ret, writers,
               scanCount, transitionCount, stageCount, scannerRuns, watch>>

\* ------------------------------------------------------------------------
\* State of ServeEndpoint and of the endpoint it serves
\* ------------------------------------------------------------------------
VARIABLES
    program,            \* what the run exercises: "local", "poll", "stage" or
                        \* "serve"
    serve,              \* position of ServeEndpoint
    deferred,           \* calls deferred by ServeEndpoint, in order of deferral
    connectionClosed,   \* connection.Close() was called
    multiplexerClosed,  \* multiplexer.Close() was called
    serveCancelled,     \* serveContext is cancelled
    pollersCancelled,   \* stagingClient.CancelAllStatePollers() was called
    init,               \* the initializeRequest received
    serveResult,        \* the error ServeEndpoint returned
    cacheLoaded,        \* the cache file was read
    stagerCreated,      \* the staging coordinator was created
    controlIn,          \* number of requests sent by the controller, not yet decoded
    controlOut,         \* messages encoded on the control channel, in order
    decoded,            \* numbers of the requests decoded by serveControl, in order
    handled,            \* numbers of the requests for which a handler was run, in order
    requestsSent,       \* requests the controller has sent so far
    endpointCache,      \* endpoint.cache: 0 as loaded, n > 0 built for request n
    endpointCacheFile,  \* content of the file at endpoint.cachePath
    stagingFiles,       \* digests the staging coordinator can provide
    task,               \* state of each serving Goroutine
    taskErr,            \* the error each serving function returned
    errors,             \* the four error channels, each of capacity one
    control,            \* position of serveControl
    request,            \* serveControl's current request
    response,           \* the response serveControl is about to encode
    ticked,             \* a watch event has been transmitted
    stateIndex,         \* transmitRsyncClientState's stateIndex
    polled,             \* the state returned by the last poll, not yet sent
    clientIndex,        \* index of the rsync client's current state
    statesSent,         \* messages transmitted on the rsync updates channel
    polls               \* history: the successful calls of stagingClient.State

serveVars == <<program, serve, deferred, connectionClosed, multiplexerClosed,
               serveCancelled, pollersCancelled, init, serveResult, cacheLoaded,
               stagerCreated, controlIn, controlOut, decoded, handled,
               requestsSent, endpointCache, endpointCacheFile, stagingFiles,
               task, taskErr, errors, control, request, response, ticked,
               stateIndex, polled, clientIndex, statesSent, polls>>

vars == <<localVars, serveVars>>

NoFrame == [id |-> 0, err |-> Nil, result |-> 0, preservesExecutability |-> FALSE,
            recomposeUnicode |-> FALSE, newCache |-> 0, newIgnoreCache |-> 0,
            results |-> 0, problems |-> 0, events |-> <<>>, base |-> 0,
            baseFile |-> 0, paths |-> <<>>, digests |-> <<>>, unstaged |-> <<>>,
            stager |-> {}, prev |-> "none", done |-> FALSE]

NoReturn == [op |-> "none", id |-> 0, result |-> 0, preservesExecutability |-> FALSE,
             err |-> Nil, tryAgain |-> FALSE, results |-> 0, problems |-> 0,
             events |-> <<>>, scanned |-> FALSE, base |-> 0, baseFile |-> 0,
             cacheFile |-> 0, paths |-> <<>>, digests |-> <<>>, unstaged |-> <<>>,
             signatures |-> <<>>, receiver |-> FALSE, stager |-> {},
             prev |-> "none", branch |-> "none", done |-> FALSE, closed |-> FALSE,
             pending |-> 0]

\* whether the filesystem of the root preserves executability bits, as probed
\* by sync.Scan
PreservesExecutability == TRUE

\* sync.Mutex.Unlock: unlocking an unlocked mutex is a fatal runtime error.
Unlock ==
    /\ scanLock' = FALSE
    /\ fatal' = (fatal \/ ~scanLock)

\* encoding.MarshalAndSaveProtobuf: the file is replaced atomically (temporary
\* file and rename), so a failed save leaves the previous content.
MarshalAndSaveProtobuf(file, message, ok) == IF ok THEN message ELSE file

\* stager.wipe: removes all content; whether or not it reports a failure,
\* once it has returned the stager can provide nothing.
WipeOutcomes(files, ok) == {{}}

\* The content of a cache file when an endpoint is created: 0 is a file that
\* is absent or cannot be loaded, -1 a cache that passes validation and -2 a
\* cache that loads and fails validation.
PersistedCaches == {0, -1, -2}

\* encoding.LoadAndUnmarshalProtobuf: the message read from the file, or an
\* error when the file is absent or cannot be read or unmarshalled
LoadAndUnmarshalProtobuf(file) ==
    IF file = 0 THEN [err |-> <<"unable to load">>, cache |-> 0]
    ELSE [err |-> Nil, cache |-> file]

\* Cache.EnsureValid: every digest has the expected width and no key is
\* empty; the caches built by a scan are valid
EnsureValid(c) == c # -2

\* ------------------------------------------------------------------------
\* newLocalEndpoint
\* ------------------------------------------------------------------------
\* the cache of a new localEndpoint: the loaded one, replaced by an empty one
\* when it fails to load or to validate
NewLocalEndpointCache(file) ==
    LET loaded == LoadAndUnmarshalProtobuf(file)
    IN  IF loaded.err # Nil THEN 0
        ELSE IF ~EnsureValid(loaded.cache) THEN 0
        ELSE loaded.cache

LocalInit(file) ==
    /\ scanLock = FALSE
    /\ cacheWriteError = Nil
    /\ cache = NewLocalEndpointCache(file)
    /\ ignoreCache = 0
    /\ recomposeUnicode = FALSE
    /\ cacheFile = file
    /\ stagerFiles = {}
    /\ fatal = FALSE
    /\ pc = [p \in Callers |-> "idle"]
    /\ frame = [p \in Callers |-> NoFrame]
    /\ ret = [p \in Callers |-> NoReturn]
    /\ writers = {}
    /\ scanCount = 0
    /\ transitionCount = 0
    /\ stageCount = 0
    /\ scannerRuns = 0
    /\ watch = [events |-> 0, cancelled |-> FALSE, closed |-> FALSE, sent |-> 0,
                received |-> 0, polls |-> 0]

\* ------------------------------------------------------------------------
\* localEndpoint.scan
\* ------------------------------------------------------------------------
\* a caller enters scan and reaches e.scanLock.Lock()
ScanCall(p) ==
    /\ pc[p] = "idle"
    /\ program = "local"
    /\ ~fatal
    /\ scanCount < MaxScans
    /\ scanCount' = scanCount + 1
    /\ frame' = [frame EXCEPT ![p] = [NoFrame EXCEPT !.id = scanCount + 1]]
    /\ pc' = [pc EXCEPT ![p] = "lock"]
    /\ ret' = [ret EXCEPT ![p] = NoReturn]
    /\ UNCHANGED <<scanLock, cacheWriteError, cache, ignoreCache, recomposeUnicode,
                   cacheFile, stagerFiles, fatal, writers, transitionCount,
                   scannerRuns,
                   stageCount,
                   watch>>
    /\ UNCHANGED serveVars

\* e.scanLock.Lock() returns
ScanLock(p) ==
    /\ pc[p] = "lock"
    /\ program = "local"
    /\ ~fatal
    /\ ~scanLock
    /\ scanLock' = TRUE
    /\ pc' = [pc EXCEPT ![p] = "check"]
    /\ UNCHANGED <<cacheWriteError, cache, ignoreCache, recomposeUnicode, cacheFile,
                   stagerFiles, fatal, frame, ret, writers, scanCount,
                   transitionCount, scannerRuns,
                   stageCount,
                   watch>>
    /\ UNCHANGED serveVars

\* a mutation of ScanCheckWriteError: scan does not look at cacheWriteError
ScanCheckSkipped(p) ==
    /\ pc[p] = "check"
    /\ program = "local"
    /\ ~fatal
    /\ pc' = [pc EXCEPT ![p] = "scan"]
    /\ UNCHANGED <<scanLock, cacheWriteError, cache, ignoreCache, recomposeUnicode,
                   cacheFile, stagerFiles, fatal, frame, ret, writers, scanCount,
                   transitionCount, scannerRuns,
                   stageCount,
                   watch>>
    /\ UNCHANGED serveVars

\* if e.cacheWriteError != nil { defer Unlock; return nil, false, Wrap(...), false }
ScanCheckWriteError(p) ==
    /\ pc[p] = "check"
    /\ program = "local"
    /\ ~fatal
    /\ IF cacheWriteError # Nil
       THEN /\ ret' = [ret EXCEPT ![p] =
                         [NoReturn EXCEPT !.op = "scan", !.id = frame[p].id,
                            !.err = Wrap(cacheWriteError, "unable to save cache to disk"),
                            !.tryAgain = FALSE]]
            /\ Unlock
            /\ pc' = [pc EXCEPT ![p] = "idle"]
            /\ frame' = [frame EXCEPT ![p] = NoFrame]
       ELSE /\ pc' = [pc EXCEPT ![p] = "scan"]
            /\ UNCHANGED <<ret, scanLock, fatal, frame>>
    /\ UNCHANGED <<cacheWriteError, cache, ignoreCache, recomposeUnicode, cacheFile,
                   stagerFiles, writers, scanCount, transitionCount, scannerRuns,
                   stageCount,
                   watch>>
    /\ UNCHANGED serveVars

\* sync.Scan(e.root, e.scanHasher, e.cache, e.ignores, e.ignoreCache, ...)
ScanRun(p) ==
    /\ pc[p] = "scan"
    /\ program = "local"
    /\ ~fatal
    /\ scannerRuns' = scannerRuns + 1
    /\ \E ok \in BOOLEAN, ru \in BOOLEAN :
          frame' = [frame EXCEPT ![p] =
            IF ok
            THEN [@ EXCEPT !.base = cache, !.baseFile = cacheFile, !.result = frame[p].id, !.preservesExecutability = PreservesExecutability,
                           !.recomposeUnicode = ru, !.newCache = frame[p].id,
                           !.newIgnoreCache = frame[p].id]
            ELSE [@ EXCEPT !.base = cache, !.baseFile = cacheFile,
                           !.err = New("scan failure")]]
    /\ pc' = [pc EXCEPT ![p] = "scanned"]
    /\ UNCHANGED <<scanLock, cacheWriteError, cache, ignoreCache, recomposeUnicode,
                   cacheFile, stagerFiles, fatal, ret, writers, scanCount,
                   transitionCount,
                   stageCount,
                   watch>>
    /\ UNCHANGED serveVars

\* a mutation of ScanFailedUnlock: the failure path returns with the lock
ScanFailedKeepsLock == UNCHANGED <<scanLock, fatal>>

\* e.scanLock.Unlock() on the failure path of scan
ScanFailedUnlock == Unlock

\* if err != nil { e.scanLock.Unlock(); return nil, false, err, true }
ScanFailed(p) ==
    /\ pc[p] = "scanned"
    /\ program = "local"
    /\ ~fatal
    /\ frame[p].err # Nil
    /\ ScanFailedUnlock
    /\ ret' = [ret EXCEPT ![p] =
                 [NoReturn EXCEPT !.op = "scan", !.id = frame[p].id,
                    !.err = frame[p].err, !.tryAgain = TRUE, !.scanned = TRUE]]
    /\ pc' = [pc EXCEPT ![p] = "idle"]
    /\ frame' = [frame EXCEPT ![p] = NoFrame]
    /\ UNCHANGED <<cacheWriteError, cache, ignoreCache, recomposeUnicode, cacheFile,
                   stagerFiles, writers, scanCount, transitionCount, scannerRuns,
                   stageCount,
                   watch>>
    /\ UNCHANGED serveVars

\* e.cache = newCache; e.ignoreCache = newIgnoreCache; e.recomposeUnicode = ...
ScanStore(p) ==
    /\ pc[p] = "scanned"
    /\ program = "local"
    /\ ~fatal
    /\ frame[p].err = Nil
    /\ cache' = frame[p].newCache
    /\ ignoreCache' = frame[p].newIgnoreCache
    /\ recomposeUnicode' = frame[p].recomposeUnicode
    /\ pc' = [pc EXCEPT ![p] = "spawn"]
    /\ UNCHANGED <<scanLock, cacheWriteError, cacheFile, stagerFiles, fatal, frame,
                   ret, writers, scanCount, transitionCount, scannerRuns,
                   stageCount,
                   watch>>
    /\ UNCHANGED serveVars

\* go func() {...}(): the background Goroutine that saves the cache is started
ScanSpawn(p) ==
    /\ pc[p] = "spawn"
    /\ program = "local"
    /\ ~fatal
    /\ writers' = writers \cup {[id |-> frame[p].id, stage |-> "spawned", message |-> 0]}
    /\ pc' = [pc EXCEPT ![p] = "spawned"]
    /\ UNCHANGED <<scanLock, cacheWriteError, cache, ignoreCache, recomposeUnicode,
                   cacheFile, stagerFiles, fatal, frame, ret, scanCount,
                   transitionCount, scannerRuns,
                   stageCount,
                   watch>>
    /\ UNCHANGED serveVars

\* a mutation of ScanReturnLock: scan unlocks when it returns
ScanReturnUnlocks == Unlock

\* scan returns with the lock still held: the background Goroutine unlocks
ScanReturnLock == UNCHANGED <<scanLock, fatal>>

\* return result, preservesExecutability, nil, false
ScanReturn(p) ==
    /\ pc[p] = "spawned"
    /\ program = "local"
    /\ ~fatal
    /\ ScanReturnLock
    /\ ret' = [ret EXCEPT ![p] =
                 [NoReturn EXCEPT !.op = "scan", !.id = frame[p].id,
                    !.result = frame[p].result,
                    !.preservesExecutability = frame[p].preservesExecutability,
                    !.err = Nil, !.tryAgain = FALSE, !.scanned = TRUE,
                    !.base = frame[p].base, !.baseFile = frame[p].baseFile,
                    !.cacheFile = cacheFile]]
    /\ pc' = [pc EXCEPT ![p] = "idle"]
    /\ frame' = [frame EXCEPT ![p] = NoFrame]
    /\ UNCHANGED <<cacheWriteError, cache, ignoreCache, recomposeUnicode,
                   cacheFile, stagerFiles, writers, scanCount, transitionCount,
                   scannerRuns,
                   stageCount,
                   watch>>
    /\ UNCHANGED serveVars

\* the background Goroutine starts encoding.MarshalAndSaveProtobuf(e.cachePath, e.cache)
WriteBegin(w) ==
    /\ w \in writers
    /\ program = "local"
    /\ ~fatal
    /\ w.stage = "spawned"
    /\ writers' = (writers \ {w}) \cup {[w EXCEPT !.stage = "writing", !.message = cache]}
    /\ UNCHANGED <<scanLock, cacheWriteError, cache, ignoreCache, recomposeUnicode,
                   cacheFile, stagerFiles, fatal, pc, frame, ret, scanCount,
                   transitionCount, scannerRuns,
                   stageCount,
                   watch>>
    /\ UNCHANGED serveVars

\* a mutation of WriteError: the error of the save is dropped
WriteErrorDropped(err, ok) == err

\* if err := ...; err != nil { e.cacheWriteError = err }
WriteError(err, ok) == IF ok THEN err ELSE New("write failure")

\* the save returns and its error, if any, is recorded
WriteEnd(w) ==
    /\ w \in writers
    /\ program = "local"
    /\ ~fatal
    /\ w.stage = "writing"
    /\ \E ok \in BOOLEAN :
          /\ cacheFile' = MarshalAndSaveProtobuf(cacheFile, w.message, ok)
          /\ cacheWriteError' = WriteError(cacheWriteError, ok)
    /\ writers' = (writers \ {w}) \cup {[w EXCEPT !.stage = "unlock"]}
    /\ UNCHANGED <<scanLock, cache, ignoreCache, recomposeUnicode, stagerFiles, fatal,
                   pc, frame, ret, scanCount, transitionCount, scannerRuns,
                   stageCount,
                   watch>>
    /\ UNCHANGED serveVars

\* e.scanLock.Unlock() in the background Goroutine
WriteUnlock(w) ==
    /\ w \in writers
    /\ program = "local"
    /\ ~fatal
    /\ w.stage = "unlock"
    /\ Unlock
    /\ writers' = writers \ {w}
    /\ UNCHANGED <<cacheWriteError, cache, ignoreCache, recomposeUnicode, cacheFile,
                   stagerFiles, pc, frame, ret, scanCount, transitionCount,
                   scannerRuns,
                   stageCount,
                   watch>>
    /\ UNCHANGED serveVars

\* ------------------------------------------------------------------------
\* localEndpoint.poll, localEndpoint.shutdown and the watcher
\* ------------------------------------------------------------------------
\* the capacity of the events channel: make(chan struct{}, 1)
WatchEventsCapacity == 1

\* what poll leaves unchanged
PollUnchanged ==
    UNCHANGED <<scanLock, cacheWriteError, cache, ignoreCache, recomposeUnicode,
                cacheFile, stagerFiles, fatal, writers, scanCount,
                transitionCount, stageCount, scannerRuns>>

\* filesystem.Watch sends an event on the channel when it has room
WatcherSend ==
    /\ program = "poll"
    /\ ~watch.closed
    /\ watch.sent < MaxEvents
    /\ watch.events < WatchEventsCapacity
    /\ watch' = [watch EXCEPT !.events = @ + 1, !.sent = @ + 1]
    /\ UNCHANGED <<pc, frame, ret>>
    /\ PollUnchanged
    /\ UNCHANGED serveVars

\* filesystem.Watch, its context cancelled, closes the channel and ends
WatcherClose ==
    /\ program = "poll"
    /\ watch.cancelled
    /\ ~watch.closed
    /\ watch' = [watch EXCEPT !.closed = TRUE]
    /\ UNCHANGED <<pc, frame, ret>>
    /\ PollUnchanged
    /\ UNCHANGED serveVars

\* shutdown: e.watchCancel(); return nil
Shutdown ==
    /\ program = "poll"
    /\ ~watch.cancelled
    /\ watch' = [watch EXCEPT !.cancelled = TRUE]
    /\ UNCHANGED <<pc, frame, ret>>
    /\ PollUnchanged
    /\ UNCHANGED serveVars

\* a caller enters poll with a context that is cancelled or not, and
\* reaches the select
PollCall(p) ==
    /\ pc[p] = "idle"
    /\ program = "poll"
    /\ watch.polls < MaxPolls
    /\ watch' = [watch EXCEPT !.polls = @ + 1]
    /\ \E done \in BOOLEAN :
          frame' = [frame EXCEPT ![p] = [NoFrame EXCEPT !.id = watch.polls + 1,
                                                       !.done = done]]
    /\ pc' = [pc EXCEPT ![p] = "select"]
    /\ ret' = [ret EXCEPT ![p] = NoReturn]
    /\ PollUnchanged
    /\ UNCHANGED serveVars

\* the context of a poll call is cancelled while poll waits in the select
PollContextCancel(p) ==
    /\ pc[p] = "select"
    /\ program = "poll"
    /\ ~frame[p].done
    /\ frame' = [frame EXCEPT ![p].done = TRUE]
    /\ UNCHANGED <<pc, ret, watch>>
    /\ PollUnchanged
    /\ UNCHANGED serveVars

\* a mutation of PollError: a cancelled context is reported as an error
PollErrorOnCancel(branch) ==
    IF branch \in {"closed", "done"} THEN New("endpoint watcher terminated") ELSE Nil

\* what poll returns after the branch of the select that it took: an error
\* when the receive found the channel closed (!ok), nil otherwise
PollError(branch) ==
    IF branch = "closed" THEN New("endpoint watcher terminated") ELSE Nil

\* poll returns after the given branch of its select
PollReturn(p, branch) ==
    /\ ret' = [ret EXCEPT ![p] =
                 [NoReturn EXCEPT !.op = "poll", !.id = frame[p].id,
                                  !.err = PollError(branch), !.branch = branch,
                                  !.done = frame[p].done, !.closed = watch.closed,
                                  !.pending = watch.events]]
    /\ pc' = [pc EXCEPT ![p] = "idle"]
    /\ frame' = [frame EXCEPT ![p] = NoFrame]

\* case _, ok := <-e.watchEvents with ok true: an event is received
PollReceive(p) ==
    /\ pc[p] = "select"
    /\ program = "poll"
    /\ watch.events > 0
    /\ watch' = [watch EXCEPT !.events = @ - 1, !.received = @ + 1]
    /\ PollReturn(p, "event")
    /\ PollUnchanged
    /\ UNCHANGED serveVars

\* case _, ok := <-e.watchEvents with ok false: the channel is closed and
\* holds no event
PollClosed(p) ==
    /\ pc[p] = "select"
    /\ program = "poll"
    /\ watch.events = 0
    /\ watch.closed
    /\ PollReturn(p, "closed")
    /\ UNCHANGED watch
    /\ PollUnchanged
    /\ UNCHANGED serveVars

\* case <-context.Done()
PollDone(p) ==
    /\ pc[p] = "select"
    /\ program = "poll"
    /\ frame[p].done
    /\ PollReturn(p, "done")
    /\ UNCHANGED watch
    /\ PollUnchanged
    /\ UNCHANGED serveVars

\* ------------------------------------------------------------------------
\* localEndpoint.stage
\* ------------------------------------------------------------------------
\* the requests the controller may make: up to MaxPaths paths, each with the
\* digest of its entry
StageRequests ==
    UNION {[paths : [1..n -> Paths], digests : [1..n -> EntryDigests]] : n \in 0..MaxPaths}

\* stager.Provide(path, digest): whether the stager has content of that digest
Provide(files, path, digest) == digest \in files

\* a mutation of AppendUnstaged: the path is appended whatever Provide returns
AppendUnstagedAlways(unstagedPaths, path, provided) == Append(unstagedPaths, path)

\* if _, err := e.stager.Provide(...); err != nil { unstagedPaths = append(...) }
AppendUnstaged(unstagedPaths, path, provided) ==
    IF ~provided THEN Append(unstagedPaths, path) ELSE unstagedPaths

\* for i, p := range paths {...}, from index i on
RECURSIVE UnstagedPaths(_, _, _, _, _)
UnstagedPaths(i, unstagedPaths, paths, digests, files) ==
    IF i > Len(paths)
    THEN unstagedPaths
    ELSE UnstagedPaths(i + 1,
                       AppendUnstaged(unstagedPaths, paths[i],
                                      Provide(files, paths[i], digests[i])),
                       paths, digests, files)

\* a caller enters stage with a list of paths and the digests of their entries
StageCall(p) ==
    /\ pc[p] = "idle"
    /\ program = "stage"
    /\ ~fatal
    /\ stageCount < MaxStages
    /\ stageCount' = stageCount + 1
    /\ \E r \in StageRequests :
          frame' = [frame EXCEPT ![p] =
                      [NoFrame EXCEPT !.id = stageCount + 1, !.paths = r.paths,
                                      !.digests = r.digests, !.prev = ret[p].op]]
    /\ pc' = [pc EXCEPT ![p] = "provide"]
    /\ ret' = [ret EXCEPT ![p] = NoReturn]
    /\ UNCHANGED <<scanLock, cacheWriteError, cache, ignoreCache, recomposeUnicode,
                   cacheFile, stagerFiles, fatal, writers, scanCount,
                   transitionCount, scannerRuns,
                   watch>>
    /\ UNCHANGED serveVars

\* the loop over the paths and, if everything was already staged,
\* return nil, nil, nil, nil
StageProvide(p) ==
    /\ pc[p] = "provide"
    /\ program = "stage"
    /\ ~fatal
    /\ LET unstagedPaths ==
              UnstagedPaths(1, <<>>, frame[p].paths, frame[p].digests, stagerFiles)
       IN  IF Len(unstagedPaths) = 0
           THEN /\ ret' = [ret EXCEPT ![p] =
                             [NoReturn EXCEPT !.op = "stage", !.id = frame[p].id,
                                !.paths = frame[p].paths, !.digests = frame[p].digests,
                                !.stager = stagerFiles, !.prev = frame[p].prev]]
                /\ pc' = [pc EXCEPT ![p] = "idle"]
                /\ frame' = [frame EXCEPT ![p] = NoFrame]
           ELSE /\ frame' = [frame EXCEPT ![p].unstaged = unstagedPaths,
                                          ![p].stager = stagerFiles]
                /\ pc' = [pc EXCEPT ![p] = "receiver"]
                /\ UNCHANGED ret
    /\ UNCHANGED <<scanLock, cacheWriteError, cache, ignoreCache, recomposeUnicode,
                   cacheFile, stagerFiles, fatal, writers, scanCount,
                   transitionCount, stageCount, scannerRuns,
                   watch>>
    /\ UNCHANGED serveVars

\* one signature for each unstaged path (an empty one for a base that cannot
\* be read), rsync.NewReceiver and the return
StageReceiver(p) ==
    /\ pc[p] = "receiver"
    /\ program = "stage"
    /\ ~fatal
    /\ \E ok \in BOOLEAN :
          ret' = [ret EXCEPT ![p] =
                    IF ok
                    THEN [NoReturn EXCEPT !.op = "stage", !.id = frame[p].id,
                            !.paths = frame[p].paths, !.digests = frame[p].digests,
                            !.unstaged = frame[p].unstaged,
                            !.signatures = [i \in 1..Len(frame[p].unstaged) |-> "signature"],
                            !.receiver = TRUE,
                            !.stager = frame[p].stager, !.prev = frame[p].prev]
                    ELSE [NoReturn EXCEPT !.op = "stage", !.id = frame[p].id,
                            !.paths = frame[p].paths, !.digests = frame[p].digests,
                            !.stager = frame[p].stager, !.prev = frame[p].prev,
                            !.err = Wrap(New("receiver failure"),
                                         "unable to create rsync receiver")]]
    /\ pc' = [pc EXCEPT ![p] = "idle"]
    /\ frame' = [frame EXCEPT ![p] = NoFrame]
    /\ UNCHANGED <<scanLock, cacheWriteError, cache, ignoreCache, recomposeUnicode,
                   cacheFile, stagerFiles, fatal, writers, scanCount,
                   transitionCount, stageCount, scannerRuns,
                   watch>>
    /\ UNCHANGED serveVars

\* ------------------------------------------------------------------------
\* localEndpoint.transition and the stager
\* ------------------------------------------------------------------------
\* the rsync receiver that a stage call returned stores received content in
\* the stager; the controller drives it between its calls into the endpoint
ReceiverStore(d) ==
    /\ program = "stage"
    /\ ~fatal
    /\ \A p \in Callers : pc[p] = "idle"
    /\ \E p \in Callers : ret[p].op = "stage" /\ ret[p].receiver
    /\ d \notin stagerFiles
    /\ stagerFiles' = stagerFiles \cup {d}
    /\ UNCHANGED <<scanLock, cacheWriteError, cache, ignoreCache, recomposeUnicode,
                   cacheFile, fatal, pc, frame, ret, writers, scanCount,
                   transitionCount, scannerRuns,
                   stageCount,
                   watch>>
    /\ UNCHANGED serveVars

TransitionCall(p) ==
    /\ pc[p] = "idle"
    /\ program = "stage"
    /\ ~fatal
    /\ transitionCount < MaxTransitions
    /\ transitionCount' = transitionCount + 1
    /\ frame' = [frame EXCEPT ![p] = [NoFrame EXCEPT !.id = transitionCount + 1,
                                                     !.prev = ret[p].op]]
    /\ pc' = [pc EXCEPT ![p] = "apply"]
    /\ ret' = [ret EXCEPT ![p] = NoReturn]
    /\ UNCHANGED <<scanLock, cacheWriteError, cache, ignoreCache, recomposeUnicode,
                   cacheFile, stagerFiles, fatal, writers, scanCount,
                   scannerRuns,
                   stageCount,
                   watch>>
    /\ UNCHANGED serveVars

\* results, problems := sync.Transition(e.root, transitions, e.cache, ...)
TransitionApply(p) ==
    /\ pc[p] = "apply"
    /\ program = "stage"
    /\ ~fatal
    /\ \E n \in 0..MaxProblems :
          frame' = [frame EXCEPT ![p] =
                      [@ EXCEPT !.results = frame[p].id, !.problems = n,
                                !.events = <<[call |-> "Transition", problems |-> n, ok |-> TRUE]>>]]
    /\ pc' = [pc EXCEPT ![p] = "wipe"]
    /\ UNCHANGED <<scanLock, cacheWriteError, cache, ignoreCache, recomposeUnicode,
                   cacheFile, stagerFiles, fatal, ret, writers, scanCount,
                   transitionCount, scannerRuns,
                   stageCount,
                   watch>>
    /\ UNCHANGED serveVars

\* a mutation of TransitionWipes: the stager is kept when there were problems
TransitionWipesIfClean(n) == n = 0

\* whether transition wipes the stager after a transition with n problems
TransitionWipes(n) == TRUE

\* e.stager.wipe(), its error dropped
TransitionWipe(p) ==
    /\ pc[p] = "wipe"
    /\ program = "stage"
    /\ ~fatal
    /\ IF TransitionWipes(frame[p].problems)
       THEN \E ok \in BOOLEAN :
               /\ stagerFiles' \in WipeOutcomes(stagerFiles, ok)
               /\ frame' = [frame EXCEPT ![p].events =
                              Append(@, [call |-> "wipe", problems |-> 0, ok |-> ok]),
                                         ![p].stager = stagerFiles]
       ELSE UNCHANGED <<stagerFiles, frame>>
    /\ pc' = [pc EXCEPT ![p] = "wiped"]
    /\ UNCHANGED <<scanLock, cacheWriteError, cache, ignoreCache, recomposeUnicode,
                   cacheFile, fatal, ret, writers, scanCount, transitionCount,
                   scannerRuns,
                   stageCount,
                   watch>>
    /\ UNCHANGED serveVars

\* a mutation of TransitionError: a transition with problems fails
TransitionErrorOnProblems(n) == IF n > 0 THEN New("transition problems") ELSE Nil

\* the error that transition returns after the applier reported n problems
TransitionError(n) == Nil

\* return results, problems, nil
TransitionReturn(p) ==
    /\ pc[p] = "wiped"
    /\ program = "stage"
    /\ ~fatal
    /\ ret' = [ret EXCEPT ![p] =
                 [NoReturn EXCEPT !.op = "transition", !.id = frame[p].id,
                    !.results = frame[p].results, !.problems = frame[p].problems,
                    !.err = TransitionError(frame[p].problems),
                    !.events = frame[p].events,
                    !.stager = frame[p].stager, !.prev = frame[p].prev]]
    /\ pc' = [pc EXCEPT ![p] = "idle"]
    /\ frame' = [frame EXCEPT ![p] = NoFrame]
    /\ UNCHANGED <<scanLock, cacheWriteError, cache, ignoreCache, recomposeUnicode,
                   cacheFile, stagerFiles, fatal, writers, scanCount,
                   transitionCount, scannerRuns,
                   stageCount,
                   watch>>
    /\ UNCHANGED serveVars

\* ------------------------------------------------------------------------
\* ServeEndpoint: values
\* ------------------------------------------------------------------------
Tasks == {"rsync", "watch", "state", "control"}

IoError == "i/o failure"

\* the initialization requests a controller may send
InitRequests == [Session : {"", "s"}, Version : {0, 1}, Root : {"", "/r"}]

NoInit == [Session |-> "", Version |-> 0, Root |-> ""]

\* the endpointRequests a controller may send: which of the three members
\* of the request are set (one of them, none, or all of them)
RequestKinds ==
    {k \in [Scan : BOOLEAN, Stage : BOOLEAN, Transition : BOOLEAN] :
        (k.Scan /\ k.Stage) <=> (k.Stage /\ k.Transition)}

NoRequest == [id |-> 0, Scan |-> FALSE, Stage |-> FALSE, Transition |-> FALSE]

NoResponse == [type |-> "none", for |-> 0, TryAgain |-> FALSE, delta |-> 0,
               changes |-> 0, problems |-> 0, events |-> <<>>]

\* a message on the control channel: whether it is the initializeResponse or
\* the response to an endpointRequest, and the number of the request that it
\* was computed from
Message(r) ==
    [type |-> IF r.type = "init" THEN "init" ELSE "response", for |-> r.for]

InitResponse == [NoResponse EXCEPT !.type = "init"]

\* Version.supported: version 1 is the only supported version
supported(v) == v = 1

\* a mutation of InitError: the root is not validated
InitErrorRootUnchecked(r) ==
    IF r.Session = "" THEN New("empty session identifier")
    ELSE IF ~supported(r.Version) THEN New("unsupported session version")
    ELSE Nil

\* the validation of the initialization request
InitError(r) ==
    IF r.Session = "" THEN New("empty session identifier")
    ELSE IF ~supported(r.Version) THEN New("unsupported session version")
    ELSE IF r.Root = "" THEN New("empty root path")
    ELSE Nil

\* a mutation of SetupDeferred: the connection is not closed on return
SetupDeferredWithoutClose == <<"multiplexer.Close", "cancelServe">>

\* the calls deferred before the initialization request is received
SetupDeferred == <<"connection.Close", "multiplexer.Close", "cancelServe">>

\* a mutation of FailureLabel: the watch case reports the rsync server
FailureLabelCopied(t) ==
    CASE t = "rsync" -> "rsync server failure"
      [] t = "watch" -> "rsync server failure"
      [] t = "state" -> "rsync state transmission failure"
      [] t = "control" -> "control server failure"

\* the message with which the select wraps the error of each task
FailureLabel(t) ==
    CASE t = "rsync" -> "rsync server failure"
      [] t = "watch" -> "watch server failure"
      [] t = "state" -> "rsync state transmission failure"
      [] t = "control" -> "control server failure"

\* a mutation of Dispatch: a request that has no member set is treated as
\* a transition
DispatchDefaultTransition(r) ==
    IF r.Scan THEN "scan"
    ELSE IF r.Stage THEN "stage"
    ELSE "transition"

\* the handler serveControl runs for a request, "invalid" if none
Dispatch(r) ==
    IF r.Scan THEN "scan"
    ELSE IF r.Stage THEN "stage"
    ELSE IF r.Transition THEN "transition"
    ELSE "invalid"

\* the message with which serveControl wraps a failure to send a response
SendLabel(type) ==
    CASE type = "scan" -> "unable to send scan response"
      [] type = "stage" -> "unable to send stage response"
      [] type = "transition" -> "unable to send transition response"

\* reads and writes on the streams fail once the connection or the
\* multiplexer is closed
ConnDown == connectionClosed \/ multiplexerClosed

IsDeferred(call) == \E i \in 1..Len(deferred) : deferred[i] = call

\* ServeEndpoint returns err: the deferred calls run
ServeReturn(err) ==
    /\ serveResult' = err
    /\ serve' = "returned"
    /\ connectionClosed' = (connectionClosed \/ IsDeferred("connection.Close"))
    /\ multiplexerClosed' = (multiplexerClosed \/ IsDeferred("multiplexer.Close"))
    /\ serveCancelled' = (serveCancelled \/ IsDeferred("cancelServe"))
    /\ pollersCancelled' =
          (pollersCancelled \/ IsDeferred("stagingClient.CancelAllStatePollers"))
    /\ deferred' = <<>>

\* ServeEndpoint goes on to its next step
ServeContinue(next) ==
    /\ serve' = next
    /\ UNCHANGED <<serveResult, connectionClosed, multiplexerClosed, serveCancelled,
                   pollersCancelled, deferred>>

\* the capacity of each of the four error channels: make(chan error, 1)
ErrorsCapacity == 1

\* a mutation of ErrorChannel: the four Goroutines share one channel
ErrorChannelShared(t) == "rsync"

\* the channel on which the Goroutine of task t sends the error of its
\* serving function: each task has its own
ErrorChannel(t) == t

\* a serving function returns err and its Goroutine sends err on the error
\* channel of the task, which has room for it
TaskReturn(t, err) ==
    /\ Len(errors[ErrorChannel(t)]) < ErrorsCapacity
    /\ errors' = [errors EXCEPT ![ErrorChannel(t)] = Append(@, err)]
    /\ task' = [task EXCEPT ![t] = "done"]
    /\ taskErr' = [taskErr EXCEPT ![t] = err]

\* the state of ServeEndpoint before it runs, with the cache file that the
\* last run of the session left
ServeInitial(prog, file) ==
    /\ program = prog
    /\ serve = "start"
    /\ deferred = <<>>
    /\ connectionClosed = FALSE
    /\ multiplexerClosed = FALSE
    /\ serveCancelled = FALSE
    /\ pollersCancelled = FALSE
    /\ init = NoInit
    /\ serveResult = Nil
    /\ cacheLoaded = FALSE
    /\ stagerCreated = FALSE
    /\ controlIn = 0
    /\ controlOut = <<>>
    /\ decoded = <<>>
    /\ handled = <<>>
    /\ requestsSent = 0
    /\ endpointCache = 0
    /\ endpointCacheFile = file
    /\ stagingFiles = {}
    /\ task = [t \in Tasks |-> "unstarted"]
    /\ taskErr = [t \in Tasks |-> Nil]
    /\ errors = [t \in Tasks |-> <<>>]
    /\ control = "decode"
    /\ request = NoRequest
    /\ response = NoResponse
    /\ ticked = FALSE
    /\ stateIndex = 0
    /\ polled = 0
    /\ clientIndex = 1
    /\ statesSent = <<>>
    /\ polls = <<>>

\* ------------------------------------------------------------------------
\* ServeEndpoint
\* ------------------------------------------------------------------------
\* housekeeping, the multiplexer, the serve context and their deferred calls
ServeSetup ==
    /\ program = "serve"
    /\ serve = "start"
    /\ deferred' = SetupDeferred
    /\ serve' = "decodeInit"
    /\ UNCHANGED <<program, connectionClosed, multiplexerClosed,
                   serveCancelled, pollersCancelled, init, serveResult,
                   cacheLoaded, stagerCreated, controlIn, controlOut, decoded,
                   handled, requestsSent, endpointCache, endpointCacheFile,
                   stagingFiles, task, taskErr, errors, control, request,
                   response, ticked, stateIndex, polled, clientIndex,
                   statesSent, polls>>
    /\ UNCHANGED localVars

\* control.Decode(&init)
ServeDecodeInit ==
    /\ program = "serve"
    /\ serve = "decodeInit"
    /\ \E ok \in BOOLEAN :
          IF ok
          THEN /\ \E r \in InitRequests : init' = r
               /\ ServeContinue("validate")
          ELSE /\ ServeReturn(Wrap(New(IoError), "unable to receive initialization request"))
               /\ UNCHANGED init
    /\ UNCHANGED <<program, cacheLoaded, stagerCreated, controlIn, controlOut,
                   decoded, handled, requestsSent, endpointCache,
                   endpointCacheFile, stagingFiles, task, taskErr, errors,
                   control, request, response, ticked, stateIndex, polled,
                   clientIndex, statesSent, polls>>
    /\ UNCHANGED localVars

\* the validation of session, version and root
ServeValidate ==
    /\ program = "serve"
    /\ serve = "validate"
    /\ IF InitError(init) # Nil
       THEN ServeReturn(InitError(init))
       ELSE ServeContinue("normalize")
    /\ UNCHANGED <<program, init, cacheLoaded, stagerCreated, controlIn,
                   controlOut, decoded, handled, requestsSent, endpointCache,
                   endpointCacheFile, stagingFiles, task, taskErr, errors,
                   control, request, response, ticked, stateIndex, polled,
                   clientIndex, statesSent, polls>>
    /\ UNCHANGED localVars

\* filesystem.Normalize(init.Root)
ServeNormalize ==
    /\ program = "serve"
    /\ serve = "normalize"
    /\ \E ok \in BOOLEAN :
          IF ok
          THEN ServeContinue("cachePath")
          ELSE ServeReturn(Wrap(New("normalize failure"), "unable to normalize root path"))
    /\ UNCHANGED <<program, init, cacheLoaded, stagerCreated, controlIn,
                   controlOut, decoded, handled, requestsSent, endpointCache,
                   endpointCacheFile, stagingFiles, task, taskErr, errors,
                   control, request, response, ticked, stateIndex, polled,
                   clientIndex, statesSent, polls>>
    /\ UNCHANGED localVars

\* pathForCache(init.Session, init.Alpha)
ServeCachePath ==
    /\ program = "serve"
    /\ serve = "cachePath"
    /\ \E ok \in BOOLEAN :
          IF ok
          THEN ServeContinue("loadCache")
          ELSE ServeReturn(Wrap(New("path failure"), "unable to compute/create cache path"))
    /\ UNCHANGED <<program, init, cacheLoaded, stagerCreated, controlIn,
                   controlOut, decoded, handled, requestsSent, endpointCache,
                   endpointCacheFile, stagingFiles, task, taskErr, errors,
                   control, request, response, ticked, stateIndex, polled,
                   clientIndex, statesSent, polls>>
    /\ UNCHANGED localVars

\* the cache of the endpoint of ServeEndpoint: the loaded one, replaced by
\* an empty one when it fails to load
ServeEndpointCache(file) ==
    LET loaded == LoadAndUnmarshalProtobuf(file)
    IN  IF loaded.err # Nil THEN 0 ELSE loaded.cache

\* the cache is loaded; if loading fails an empty cache replaces it
ServeLoadCache ==
    /\ program = "serve"
    /\ serve = "loadCache"
    /\ cacheLoaded' = TRUE
    /\ endpointCache' = ServeEndpointCache(endpointCacheFile)
    /\ ServeContinue("newStager")
    /\ UNCHANGED <<program, init, stagerCreated, controlIn, controlOut,
                   decoded, handled, requestsSent, endpointCacheFile,
                   stagingFiles, task, taskErr, errors, control, request,
                   response, ticked, stateIndex, polled, clientIndex,
                   statesSent, polls>>
    /\ UNCHANGED localVars

\* a mutation of AfterNewClient: the Goroutines are started right away
AfterNewClientSpawn == "spawn"

\* the step of ServeEndpoint that follows the creation of the rsync client:
\* sending the initialization response
AfterNewClient == "sendInit"

\* newStagingCoordinator, rsync.NewClient and its deferred cancellation
ServeNewStager ==
    /\ program = "serve"
    /\ serve = "newStager"
    /\ \E ok \in BOOLEAN :
          IF ok
          THEN /\ stagerCreated' = TRUE
               /\ deferred' = Append(deferred, "stagingClient.CancelAllStatePollers")
               /\ serve' = AfterNewClient
               /\ UNCHANGED <<serveResult, connectionClosed, multiplexerClosed,
                              serveCancelled, pollersCancelled>>
          ELSE /\ ServeReturn(Wrap(New("stager failure"), "unable to create staging coordinator"))
               /\ UNCHANGED stagerCreated
    /\ UNCHANGED <<program, init, cacheLoaded, controlIn, controlOut, decoded,
                   handled, requestsSent, endpointCache, endpointCacheFile,
                   stagingFiles, task, taskErr, errors, control, request,
                   response, ticked, stateIndex, polled, clientIndex,
                   statesSent, polls>>
    /\ UNCHANGED localVars

\* control.Encode(initResponse)
ServeSendInit ==
    /\ program = "serve"
    /\ serve = "sendInit"
    /\ \E ok \in BOOLEAN :
          IF ok
          THEN /\ controlOut' = Append(controlOut, Message(InitResponse))
               /\ ServeContinue("spawn")
          ELSE /\ ServeReturn(Wrap(New(IoError), "unable to send initialization response"))
               /\ UNCHANGED controlOut
    /\ UNCHANGED <<program, init, cacheLoaded, stagerCreated, controlIn,
                   decoded, handled, requestsSent, endpointCache,
                   endpointCacheFile, stagingFiles, task, taskErr, errors,
                   control, request, response, ticked, stateIndex, polled,
                   clientIndex, statesSent, polls>>
    /\ UNCHANGED localVars

\* the endpoint is created and the four serving Goroutines are started
ServeSpawn ==
    /\ program = "serve"
    /\ serve = "spawn"
    /\ task' = [t \in Tasks |-> "running"]
    /\ ServeContinue("select")
    /\ UNCHANGED <<program, init, cacheLoaded, stagerCreated, controlIn,
                   controlOut, decoded, handled, requestsSent, endpointCache,
                   endpointCacheFile, stagingFiles, taskErr, errors, control,
                   request, response, ticked, stateIndex, polled, clientIndex,
                   statesSent, polls>>
    /\ UNCHANGED localVars

\* the select receives the error of task t and ServeEndpoint returns it
ServeSelect(t) ==
    /\ program = "serve"
    /\ serve = "select"
    /\ errors[t] # <<>>
    /\ errors' = [errors EXCEPT ![t] = Tail(@)]
    /\ ServeReturn(Wrap(Head(errors[t]), FailureLabel(t)))
    /\ UNCHANGED <<program, init, cacheLoaded, stagerCreated, controlIn,
                   controlOut, decoded, handled, requestsSent, endpointCache,
                   endpointCacheFile, stagingFiles, task, taskErr, control,
                   request, response, ticked, stateIndex, polled, clientIndex,
                   statesSent, polls>>
    /\ UNCHANGED localVars

\* the controller sends an endpointRequest on the control channel
ControllerSend ==
    /\ program = "serve"
    /\ serve # "start"
    /\ ~ConnDown
    /\ requestsSent < MaxRequests
    /\ requestsSent' = requestsSent + 1
    /\ controlIn' = controlIn + 1
    /\ UNCHANGED <<program, serve, deferred, connectionClosed,
                   multiplexerClosed, serveCancelled, pollersCancelled, init,
                   serveResult, cacheLoaded, stagerCreated, controlOut,
                   decoded, handled, endpointCache, endpointCacheFile,
                   stagingFiles, task, taskErr, errors, control, request,
                   response, ticked, stateIndex, polled, clientIndex,
                   statesSent, polls>>
    /\ UNCHANGED localVars

\* ------------------------------------------------------------------------
\* endpoint.serveRsync, endpoint.serveWatch, endpoint.transmitRsyncClientState
\* ------------------------------------------------------------------------
\* what rsync.Serve can return: it serves requests until an error occurs
RsyncServeResults == {New("rsync failure")}

\* return rsync.Serve(connection, e.root)
RsyncServeFail ==
    /\ program = "serve"
    /\ task["rsync"] = "running"
    /\ \E err \in RsyncServeResults : TaskReturn("rsync", err)
    /\ UNCHANGED <<program, serve, deferred, connectionClosed,
                   multiplexerClosed, serveCancelled, pollersCancelled, init,
                   serveResult, cacheLoaded, stagerCreated, controlIn,
                   controlOut, decoded, handled, requestsSent, endpointCache,
                   endpointCacheFile, stagingFiles, control, request, response,
                   ticked, stateIndex, polled, clientIndex, statesSent, polls>>
    /\ UNCHANGED localVars

\* case <-ticker.C: stream.Encode(struct{}{})
WatchTick(ok) ==
    /\ program = "serve"
    /\ task["watch"] = "running"
    /\ IF ok
       THEN /\ ~ConnDown
            /\ ticked' = TRUE
            /\ UNCHANGED <<task, taskErr, errors>>
       ELSE /\ TaskReturn("watch", Wrap(New(IoError), "unable to transmit watch event"))
            /\ UNCHANGED ticked
    /\ UNCHANGED <<program, serve, deferred, connectionClosed,
                   multiplexerClosed, serveCancelled, pollersCancelled, init,
                   serveResult, cacheLoaded, stagerCreated, controlIn,
                   controlOut, decoded, handled, requestsSent, endpointCache,
                   endpointCacheFile, stagingFiles, control, request, response,
                   stateIndex, polled, clientIndex, statesSent, polls>>
    /\ UNCHANGED localVars

\* a mutation of ContextDone: the cancellation branch is always ready
ContextDoneAlways == TRUE

\* <-context.Done() is ready: serveContext has been cancelled
ContextDone == serveCancelled

\* case <-context.Done(): return errors.New("cancelled")
WatchCancelled ==
    /\ program = "serve"
    /\ task["watch"] = "running"
    /\ ContextDone
    /\ TaskReturn("watch", New("cancelled"))
    /\ UNCHANGED <<program, serve, deferred, connectionClosed,
                   multiplexerClosed, serveCancelled, pollersCancelled, init,
                   serveResult, cacheLoaded, stagerCreated, controlIn,
                   controlOut, decoded, handled, requestsSent, endpointCache,
                   endpointCacheFile, stagingFiles, control, request, response,
                   ticked, stateIndex, polled, clientIndex, statesSent, polls>>
    /\ UNCHANGED localVars

\* state, stateIndex, err = e.stagingClient.State(stateIndex): State blocks
\* until the index of the client's state differs from the one passed, and
\* returns the state and its index
StatePoll(ok) ==
    /\ program = "serve"
    /\ task["state"] = "running"
    /\ polled = 0
    /\ IF ok
       THEN /\ ~pollersCancelled
            /\ clientIndex # stateIndex
            /\ stateIndex' = clientIndex
            /\ polled' = clientIndex
            /\ polls' = Append(polls, [from |-> stateIndex, state |-> clientIndex,
                                       index |-> clientIndex])
            /\ UNCHANGED <<task, taskErr, errors>>
       ELSE /\ pollersCancelled
            /\ TaskReturn("state", Wrap(New("polling cancelled"), "unable to poll client state"))
            /\ UNCHANGED <<stateIndex, polled, polls>>
    /\ UNCHANGED <<program, serve, deferred, connectionClosed,
                   multiplexerClosed, serveCancelled, pollersCancelled, init,
                   serveResult, cacheLoaded, stagerCreated, controlIn,
                   controlOut, decoded, handled, requestsSent, endpointCache,
                   endpointCacheFile, stagingFiles, control, request, response,
                   ticked, clientIndex, statesSent>>
    /\ UNCHANGED localVars

\* the message that transmitRsyncClientState encodes for a polled state
StateMessage(state) == [state |-> state]

\* stream.Encode(state)
StateTransmit(ok) ==
    /\ program = "serve"
    /\ task["state"] = "running"
    /\ polled # 0
    /\ IF ok
       THEN /\ ~ConnDown
            /\ statesSent' = Append(statesSent, StateMessage(polled))
            /\ polled' = 0
            /\ UNCHANGED <<task, taskErr, errors>>
       ELSE /\ TaskReturn("state", Wrap(New(IoError), "unable to transmit state"))
            /\ UNCHANGED <<statesSent, polled>>
    /\ UNCHANGED <<program, serve, deferred, connectionClosed,
                   multiplexerClosed, serveCancelled, pollersCancelled, init,
                   serveResult, cacheLoaded, stagerCreated, controlIn,
                   controlOut, decoded, handled, requestsSent, endpointCache,
                   endpointCacheFile, stagingFiles, control, request, response,
                   ticked, stateIndex, clientIndex, polls>>
    /\ UNCHANGED localVars

\* ------------------------------------------------------------------------
\* endpoint.serveControl and its handlers
\* ------------------------------------------------------------------------
\* serveControl returns err; its request and response go out of scope
ControlReturn(err) ==
    /\ TaskReturn("control", err)
    /\ control' = "done"
    /\ request' = NoRequest
    /\ response' = NoResponse

\* stream.Decode(&request)
ControlDecode(ok) ==
    /\ program = "serve"
    /\ task["control"] = "running"
    /\ control = "decode"
    /\ IF ok
       THEN /\ ~ConnDown
            /\ controlIn > 0
            /\ controlIn' = controlIn - 1
            /\ \E k \in RequestKinds :
                  /\ request' = [id |-> Len(decoded) + 1, Scan |-> k.Scan,
                                 Stage |-> k.Stage, Transition |-> k.Transition]
                  /\ decoded' = Append(decoded, Len(decoded) + 1)
            /\ control' = "dispatch"
            /\ UNCHANGED <<task, taskErr, errors, response>>
       ELSE /\ ControlReturn(Wrap(New(IoError), "unable to decode request"))
            /\ UNCHANGED <<controlIn, decoded>>
    /\ UNCHANGED <<program, serve, deferred, connectionClosed,
                   multiplexerClosed, serveCancelled, pollersCancelled, init,
                   serveResult, cacheLoaded, stagerCreated, controlOut,
                   handled, requestsSent, endpointCache, endpointCacheFile,
                   stagingFiles, ticked, stateIndex, polled, clientIndex,
                   statesSent, polls>>
    /\ UNCHANGED localVars

\* the dispatch on request.Scan, request.Stage and request.Transition
ControlDispatch ==
    /\ program = "serve"
    /\ task["control"] = "running"
    /\ control = "dispatch"
    /\ IF Dispatch(request) = "invalid"
       THEN /\ ControlReturn(New("invalid request"))
            /\ UNCHANGED handled
       ELSE /\ control' = Dispatch(request)
            /\ handled' = Append(handled, request.id)
            /\ UNCHANGED <<task, taskErr, errors, request, response>>
    /\ UNCHANGED <<program, serve, deferred, connectionClosed,
                   multiplexerClosed, serveCancelled, pollersCancelled, init,
                   serveResult, cacheLoaded, stagerCreated, controlIn,
                   controlOut, decoded, requestsSent, endpointCache,
                   endpointCacheFile, stagingFiles, ticked, stateIndex, polled,
                   clientIndex, statesSent, polls>>
    /\ UNCHANGED localVars

\* a mutation of ScanFailureResponse: a failed scan is reported as an empty
\* delta
ScanFailureResponseEmptyDelta(r) == [NoResponse EXCEPT !.type = "scan", !.for = r.id]

\* return &scanResponse{TryAgain: true}, nil
ScanFailureResponse(r) ==
    [NoResponse EXCEPT !.type = "scan", !.for = r.id, !.TryAgain = TRUE]

\* a mutation of AfterScanFailure: the loop goes on without a response
AfterScanFailureSkip == "decode"

\* handleScan returned a response and no error: serveControl encodes it
AfterScanFailure == "encode"

\* handleScan: sync.Scan(e.root, e.scanHasher, e.cache, e.ignores)
HandleScan(ok) ==
    /\ program = "serve"
    /\ task["control"] = "running"
    /\ control = "scan"
    /\ IF ok
       THEN /\ control' = "save"
            /\ UNCHANGED response
       ELSE /\ response' = ScanFailureResponse(request)
            /\ control' = AfterScanFailure
    /\ UNCHANGED <<program, serve, deferred, connectionClosed,
                   multiplexerClosed, serveCancelled, pollersCancelled, init,
                   serveResult, cacheLoaded, stagerCreated, controlIn,
                   controlOut, decoded, handled, requestsSent, endpointCache,
                   endpointCacheFile, stagingFiles, task, taskErr, errors,
                   request, ticked, stateIndex, polled, clientIndex, statesSent, polls>>
    /\ UNCHANGED localVars

\* a mutation of CacheAfterSave: the new cache is stored before it is saved
CacheAfterSaveStoredFirst(old, new, saveOk) == new

\* e.cache after the save of the new cache: handleScan returns on a failed
\* save before the assignment e.cache = cache
CacheAfterSave(old, new, saveOk) == IF saveOk THEN new ELSE old

\* handleScan: the cache is saved and stored, the snapshot marshalled and
\* deltafied
HandleScanSave(saveOk, marshalOk) ==
    /\ program = "serve"
    /\ task["control"] = "running"
    /\ control = "save"
    /\ endpointCacheFile' = MarshalAndSaveProtobuf(endpointCacheFile, request.id, saveOk)
    /\ endpointCache' = CacheAfterSave(endpointCache, request.id, saveOk)
    /\ IF ~saveOk
       THEN ControlReturn(Wrap(Wrap(New("write failure"), "unable to save cache"),
                               "unable to perform scan"))
       ELSE IF ~marshalOk
       THEN ControlReturn(Wrap(Wrap(New("marshal failure"), "unable to marshal snapshot"),
                               "unable to perform scan"))
       ELSE /\ response' = [NoResponse EXCEPT !.type = "scan", !.for = request.id,
                                               !.delta = request.id]
            /\ control' = "encode"
            /\ UNCHANGED <<task, taskErr, errors, request>>
    /\ UNCHANGED <<program, serve, deferred, connectionClosed,
                   multiplexerClosed, serveCancelled, pollersCancelled, init,
                   serveResult, cacheLoaded, stagerCreated, controlIn,
                   controlOut, decoded, handled, requestsSent, stagingFiles,
                   ticked, stateIndex, polled, clientIndex, statesSent, polls>>
    /\ UNCHANGED localVars

\* handleStage: stagingPathsForChanges and stagingClient.Stage
HandleStage(outcome) ==
    /\ program = "serve"
    /\ task["control"] = "running"
    /\ control = "stage"
    /\ CASE outcome = "paths" ->
              /\ ControlReturn(Wrap(Wrap(New("invalid change"), "unable to extract staging paths"),
                                    "unable to perform staging"))
              /\ UNCHANGED <<stagingFiles, clientIndex>>
         [] outcome = "stage" ->
              /\ ControlReturn(Wrap(Wrap(New(IoError), "unable to stage files"),
                                    "unable to perform staging"))
              /\ \E received \in SUBSET Digests : stagingFiles' = stagingFiles \cup received
              /\ UNCHANGED clientIndex
         [] outcome = "ok" ->
              /\ response' = [NoResponse EXCEPT !.type = "stage", !.for = request.id]
              /\ \E received \in SUBSET Digests : stagingFiles' = stagingFiles \cup received
              /\ clientIndex' = clientIndex + 1
              /\ control' = "encode"
              /\ UNCHANGED <<task, taskErr, errors, request>>
    /\ UNCHANGED <<program, serve, deferred, connectionClosed,
                   multiplexerClosed, serveCancelled, pollersCancelled, init,
                   serveResult, cacheLoaded, stagerCreated, controlIn,
                   controlOut, decoded, handled, requestsSent, endpointCache,
                   endpointCacheFile, ticked, stateIndex, polled, statesSent, polls>>
    /\ UNCHANGED localVars

\* handleTransition: sync.Transition(e.root, request.Transitions, e.cache, ...)
HandleTransition ==
    /\ program = "serve"
    /\ task["control"] = "running"
    /\ control = "transition"
    /\ \E n \in 0..MaxProblems :
          response' = [NoResponse EXCEPT !.type = "transition", !.for = request.id,
                         !.changes = request.id, !.problems = n,
                         !.events = <<[call |-> "Transition", problems |-> n, ok |-> TRUE]>>]
    /\ control' = "wipe"
    /\ UNCHANGED <<program, serve, deferred, connectionClosed,
                   multiplexerClosed, serveCancelled, pollersCancelled, init,
                   serveResult, cacheLoaded, stagerCreated, controlIn,
                   controlOut, decoded, handled, requestsSent, endpointCache,
                   endpointCacheFile, stagingFiles, task, taskErr, errors,
                   request, ticked, stateIndex, polled, clientIndex, statesSent, polls>>
    /\ UNCHANGED localVars

\* handleTransition: e.stagingCoordinator.wipe(), its error dropped, and the
\* return of the transitionResponse
HandleTransitionWipe ==
    /\ program = "serve"
    /\ task["control"] = "running"
    /\ control = "wipe"
    /\ \E ok \in BOOLEAN :
          /\ stagingFiles' \in WipeOutcomes(stagingFiles, ok)
          /\ response' = [response EXCEPT !.events =
                            Append(@, [call |-> "wipe", problems |-> 0, ok |-> ok])]
    /\ control' = "encode"
    /\ UNCHANGED <<program, serve, deferred, connectionClosed,
                   multiplexerClosed, serveCancelled, pollersCancelled, init,
                   serveResult, cacheLoaded, stagerCreated, controlIn,
                   controlOut, decoded, handled, requestsSent, endpointCache,
                   endpointCacheFile, task, taskErr, errors, request, ticked,
                   stateIndex, polled, clientIndex, statesSent, polls>>
    /\ UNCHANGED localVars

\* stream.Encode(response)
ControlEncode(ok) ==
    /\ program = "serve"
    /\ task["control"] = "running"
    /\ control = "encode"
    /\ IF ok
       THEN /\ ~ConnDown
            /\ controlOut' = Append(controlOut, Message(response))
            /\ control' = "decode"
            /\ request' = NoRequest
            /\ response' = NoResponse
            /\ UNCHANGED <<task, taskErr, errors>>
       ELSE /\ ControlReturn(Wrap(New(IoError), SendLabel(response.type)))
            /\ UNCHANGED controlOut
    /\ UNCHANGED <<program, serve, deferred, connectionClosed,
                   multiplexerClosed, serveCancelled, pollersCancelled, init,
                   serveResult, cacheLoaded, stagerCreated, controlIn, decoded,
                   handled, requestsSent, endpointCache, endpointCacheFile,
                   stagingFiles, ticked, stateIndex, polled, clientIndex,
                   statesSent, polls>>
    /\ UNCHANGED localVars

\* ------------------------------------------------------------------------
\* Specifications
\* ------------------------------------------------------------------------
Init ==
    \E prog \in {"local", "poll", "stage", "serve"}, file \in PersistedCaches :
       /\ LocalInit(IF prog = "serve" THEN 0 ELSE file)
       /\ ServeInitial(prog, IF prog = "serve" THEN file ELSE 0)

ScanNext ==
    \/ \E p \in Callers : ScanCall(p)
    \/ \E p \in Callers : ScanLock(p)
    \/ \E p \in Callers : ScanCheckWriteError(p)
    \/ \E p \in Callers : ScanRun(p)
    \/ \E p \in Callers : ScanFailed(p)
    \/ \E p \in Callers : ScanStore(p)
    \/ \E p \in Callers : ScanSpawn(p)
    \/ \E p \in Callers : ScanReturn(p)
    \/ \E w \in writers : WriteBegin(w)
    \/ \E w \in writers : WriteEnd(w)
    \/ \E w \in writers : WriteUnlock(w)

PollNext ==
    \/ WatcherSend
    \/ WatcherClose
    \/ Shutdown
    \/ \E p \in Callers : PollCall(p)
    \/ \E p \in Callers : PollContextCancel(p)
    \/ \E p \in Callers : PollReceive(p)
    \/ \E p \in Callers : PollClosed(p)
    \/ \E p \in Callers : PollDone(p)

LocalNext ==
    \/ ScanNext
    \/ PollNext
    \/ \E p \in Synchronizers : StageCall(p)
    \/ \E p \in Synchronizers : StageProvide(p)
    \/ \E p \in Synchronizers : StageReceiver(p)
    \/ \E d \in EntryDigests : ReceiverStore(d)
    \/ \E p \in Synchronizers : TransitionCall(p)
    \/ \E p \in Synchronizers : TransitionApply(p)
    \/ \E p \in Synchronizers : TransitionWipe(p)
    \/ \E p \in Synchronizers : TransitionReturn(p)

ServeNext ==
    \/ ServeSetup
    \/ ServeDecodeInit
    \/ ServeValidate
    \/ ServeNormalize
    \/ ServeCachePath
    \/ ServeLoadCache
    \/ ServeNewStager
    \/ ServeSendInit
    \/ ServeSpawn
    \/ \E t \in Tasks : ServeSelect(t)
    \/ ControllerSend
    \/ RsyncServeFail
    \/ \E ok \in BOOLEAN : WatchTick(ok)
    \/ WatchCancelled
    \/ \E ok \in BOOLEAN : StatePoll(ok)
    \/ \E ok \in BOOLEAN : StateTransmit(ok)
    \/ \E ok \in BOOLEAN : ControlDecode(ok)
    \/ ControlDispatch
    \/ \E ok \in BOOLEAN : HandleScan(ok)
    \/ \E saveOk \in BOOLEAN, marshalOk \in BOOLEAN : HandleScanSave(saveOk, marshalOk)
    \/ \E outcome \in {"paths", "stage", "ok"} : HandleStage(outcome)
    \/ HandleTransition
    \/ HandleTransitionWipe
    \/ \E ok \in BOOLEAN : ControlEncode(ok)

Next == LocalNext \/ ServeNext

Spec == Init /\ [][Next]_vars

\* what the Go scheduler and the streams guarantee to the serving Goroutines:
\* a Goroutine that can take a step takes one, and I/O on a closed connection
\* fails; I/O on an open connection may block forever.
ControlProgress ==
    \/ ControlDecode(TRUE)
    \/ (ConnDown /\ ControlDecode(FALSE))
    \/ ControlDispatch
    \/ \E ok \in BOOLEAN : HandleScan(ok)
    \/ \E saveOk \in BOOLEAN, marshalOk \in BOOLEAN : HandleScanSave(saveOk, marshalOk)
    \/ \E outcome \in {"paths", "stage", "ok"} : HandleStage(outcome)
    \/ HandleTransition
    \/ HandleTransitionWipe
    \/ ControlEncode(TRUE)
    \/ (ConnDown /\ ControlEncode(FALSE))

StateProgress ==
    \/ \E ok \in BOOLEAN : StatePoll(ok)
    \/ StateTransmit(TRUE)
    \/ (ConnDown /\ StateTransmit(FALSE))

ServeFairness ==
    /\ WF_vars(ControlProgress)
    /\ WF_vars(StateProgress)
    /\ WF_vars(WatchCancelled)
    /\ WF_vars(ConnDown /\ RsyncServeFail)

\* a caller inside scan takes its next step
ScanProgress(p) ==
    \/ ScanCheckWriteError(p)
    \/ ScanRun(p)
    \/ ScanFailed(p)
    \/ ScanStore(p)
    \/ ScanSpawn(p)
    \/ ScanReturn(p)

\* the background Goroutine takes its next step: the save terminates
WriteProgress == \E w \in writers : WriteBegin(w) \/ WriteEnd(w) \/ WriteUnlock(w)

\* Goroutines inside scan and the background Goroutine keep running, and
\* sync.Mutex hands the lock to a Goroutine that keeps waiting for it
\* (starvation mode)
ScanFairness ==
    /\ \A p \in Callers : WF_vars(ScanProgress(p))
    /\ \A p \in Callers : SF_vars(ScanLock(p))
    /\ WF_vars(WriteProgress)

\* a new localEndpoint on which scan is called
ScanInit ==
    \E file \in PersistedCaches : LocalInit(file) /\ ServeInitial("local", 0)

FairLocal == ScanInit /\ [][ScanNext]_vars /\ ScanFairness

\* a poll call in its select takes a branch that is ready
PollProgress(p) == PollReceive(p) \/ PollClosed(p) \/ PollDone(p)

\* Goroutines waiting in a select with a ready branch keep running
PollFairness == \A p \in Callers : WF_vars(PollProgress(p))

\* a new localEndpoint on which poll and shutdown are called
PollInit ==
    \E file \in PersistedCaches : LocalInit(file) /\ ServeInitial("poll", 0)

FairPoll == PollInit /\ [][PollNext]_vars /\ PollFairness

\* the first run of a session: there is no cache file yet
FairInit == LocalInit(0) /\ ServeInitial("serve", 0)

FairServe == FairInit /\ [][ServeNext]_vars /\ ServeFairness

\* ------------------------------------------------------------------------
\* Properties of localEndpoint.scan
\* ------------------------------------------------------------------------
\* callers that are inside scan between Lock and their return
InScan == {p \in Callers : pc[p] \in {"check", "scan", "scanned", "spawn"}}

\* C1: the scan lock is held by at most one scan at a time, counting the
\* background cache write of a scan that has returned as that scan still
\* holding it; and while a cache write is pending or in progress no step runs
\* the scanner or assigns cache, ignoreCache or recomposeUnicode.
C1_ScanLockHeldThroughWrite ==
    /\ [](/\ Cardinality(InScan) + Cardinality(writers) <= 1
          /\ (InScan # {} \/ writers # {}) => scanLock)
    /\ [][writers # {} =>
            /\ scannerRuns' = scannerRuns
            /\ cache' = cache
            /\ ignoreCache' = ignoreCache
            /\ recomposeUnicode' = recomposeUnicode]_vars

\* a second scan waits for the lock while the first scan's write is going on
C1_Witness ==
    /\ \E w \in writers : w.stage = "writing"
    /\ \E p \in Callers : pc[p] = "lock"

\* C2: once cacheWriteError is set it stays set, and from then on no step
\* runs the scanner or changes cache, ignoreCache or recomposeUnicode, and
\* every scan call that returns does so with an error, try-again false and
\* without having run the scanner.
C2_CacheWriteErrorSticky ==
    [][cacheWriteError # Nil =>
         /\ cacheWriteError' # Nil
         /\ scannerRuns' = scannerRuns
         /\ cache' = cache
         /\ ignoreCache' = ignoreCache
         /\ recomposeUnicode' = recomposeUnicode
         /\ \A p \in Callers :
               (pc[p] \in {"check", "scan", "scanned", "spawn"} /\ pc'[p] = "idle") =>
                  /\ ret'[p].op = "scan"
                  /\ ret'[p].err # Nil
                  /\ ~ret'[p].tryAgain
                  /\ ~ret'[p].scanned]_vars

\* a scan has been refused because of an earlier failed cache write
C2_Witness ==
    /\ cacheWriteError # Nil
    /\ \E p \in Callers :
          /\ ret[p].op = "scan"
          /\ ret[p].err = <<"unable to save cache to disk", "write failure">>
          /\ ret[p].id > 1

\* C3 as stated: when scan returns success, the cache file already holds the
\* cache that this scan produced.
C3_SuccessImpliesDurable ==
    \A p \in Callers :
       (ret[p].op = "scan" /\ ret[p].err = Nil) => ret[p].cacheFile = ret[p].id

\* C3 amended: when scan returns success after it ran the scanner on the
\* cache of an earlier scan, that earlier cache was in the cache file when the
\* scanner ran.
C3_PreviousScanDurable ==
    \A p \in Callers :
       (ret[p].op = "scan" /\ ret[p].err = Nil /\ ret[p].base > 0) =>
          ret[p].baseFile = ret[p].base

\* a scan that started from an earlier scan's cache has returned success
\* before its own cache was written
C3_Witness ==
    \E p \in Callers :
       /\ ret[p].op = "scan"
       /\ ret[p].err = Nil
       /\ ret[p].base > 0
       /\ ret[p].cacheFile = ret[p].base

\* C4: a scanner failure is transient.  In localEndpoint.scan, from the
\* failure of sync.Scan to the return no step changes cache, ignoreCache,
\* recomposeUnicode or the cache file or starts a cache write, and the call
\* returns the scanner's error with try-again true, no result and the lock
\* released.  In endpoint.handleScan, the failure produces the response
\* {TryAgain: true} with no delta, which serveControl goes on to encode, and
\* leaves the cache and the cache file as they were.
C4_ScanFailureTransient ==
    [][/\ \A p \in Callers :
            (pc[p] = "scanned" /\ frame[p].err # Nil) =>
               /\ cache' = cache
               /\ ignoreCache' = ignoreCache
               /\ recomposeUnicode' = recomposeUnicode
               /\ cacheFile' = cacheFile
               /\ writers' = writers
               /\ pc'[p] # pc[p] =>
                     /\ pc'[p] = "idle"
                     /\ ret'[p].op = "scan"
                     /\ ret'[p].err = frame[p].err
                     /\ ret'[p].tryAgain
                     /\ ret'[p].result = 0
                     /\ ~scanLock'
       /\ (control = "scan" /\ control' \notin {"scan", "save"}) =>
               /\ control' = "encode"
               /\ task'["control"] = "running"
               /\ response'.type = "scan"
               /\ response'.TryAgain
               /\ response'.delta = 0
               /\ endpointCache' = endpointCache
               /\ endpointCacheFile' = endpointCacheFile]_vars

\* a scan has succeeded after an earlier scan had asked to try again
C4_Witness ==
    \E p \in Callers, q \in Callers :
       /\ ret[p].op = "scan" /\ ret[p].tryAgain /\ ret[p].err = <<"scan failure">>
       /\ ret[q].op = "scan" /\ ret[q].err = Nil /\ ret[q].id > ret[p].id

\* ------------------------------------------------------------------------
\* Properties of ServeEndpoint and serveControl
\* ------------------------------------------------------------------------
\* the label that identifies each serving task in the returned error
TaskIdentity ==
    [t \in Tasks |->
        CASE t = "rsync" -> "rsync server failure"
          [] t = "watch" -> "watch server failure"
          [] t = "state" -> "rsync state transmission failure"
          [] t = "control" -> "control server failure"]

TasksStarted == \A t \in Tasks : task[t] # "unstarted"

\* C5: once the serving tasks are started, ServeEndpoint has returned only if
\* some task has terminated with an error and delivered it, and what it
\* returned is that task's error wrapped with that task's label.
C5_FirstFailureWins ==
    (serve = "returned" /\ TasksStarted) =>
       \E t \in Tasks :
          /\ task[t] = "done"
          /\ taskErr[t] # Nil
          /\ serveResult = <<TaskIdentity[t]>> \o taskErr[t]

\* ServeEndpoint has returned the failure of the control task while the
\* rsync server has also failed and the watch task is still running
C5_Witness ==
    /\ serve = "returned"
    /\ serveResult = <<"control server failure", "invalid request">>
    /\ task["rsync"] = "done"
    /\ task["watch"] = "running"

\* C6: when ServeEndpoint has returned, the serve context is cancelled and the
\* multiplexer and the connection are closed; and from then on every serving
\* task that was started terminates and delivers its error.
C6_ReturnClosesAndTerminates ==
    /\ [](serve = "returned" =>
            serveCancelled /\ multiplexerClosed /\ connectionClosed)
    /\ [](serve = "returned" =>
            <>(\A t \in Tasks : task[t] \in {"unstarted", "done"}))

\* ServeEndpoint has returned and the four serving tasks have terminated
C6_Witness ==
    /\ serve = "returned"
    /\ \A t \in Tasks : task[t] = "done"

InvalidInit(r) == r.Session = "" \/ r.Version # 1 \/ r.Root = ""

\* C7: once an initialization request with an empty session, an unsupported
\* version or an empty root is received, ServeEndpoint goes no further than
\* its validation: no message is sent, the cache is not loaded, the stager is
\* not created, no task is started, and when it has returned it has returned
\* an error and closed the connection.
C7_InvalidInitRejected ==
    (serve \notin {"start", "decodeInit"} /\ InvalidInit(init)) =>
       /\ serve \in {"validate", "returned"}
       /\ controlOut = <<>>
       /\ ~cacheLoaded
       /\ ~stagerCreated
       /\ \A t \in Tasks : task[t] = "unstarted"
       /\ serve = "returned" => (serveResult # Nil /\ connectionClosed)

\* a request with a session, a supported version and no root was rejected
C7_Witness ==
    /\ serve = "returned"
    /\ init = [Session |-> "s", Version |-> 1, Root |-> ""]
    /\ serveResult = <<"empty root path">>

\* the responses to endpointRequests sent so far
Responses == SelectSeq(controlOut, LAMBDA m : m.type # "init")

\* serveControl is between the decoding of a request and its response
Handling == control \in {"dispatch", "scan", "save", "stage", "transition",
                         "wipe", "encode"}

\* C8: the k-th response on the control channel answers the k-th request
\* decoded; while a request is being handled all earlier requests and only
\* they have a response; and serveControl is at Decode only when every decoded
\* request has its response.
C8_ControlFifo ==
    /\ \A k \in 1..Len(Responses) :
          /\ k <= Len(decoded)
          /\ Responses[k].for = decoded[k]
    /\ Handling => Len(Responses) = Len(decoded) - 1
    /\ control = "decode" => Len(Responses) = Len(decoded)

\* the first request has its response and the second request, sent while the
\* first was handled, is about to get its own
C8_Witness ==
    /\ control = "encode"
    /\ request.id = 2
    /\ Len(Responses) = 1
    /\ response.TryAgain

\* a request none of whose members is set
NoMember(r) == r.id # 0 /\ ~r.Scan /\ ~r.Stage /\ ~r.Transition

\* C9: the handlers run one per decoded request, in the order of the requests,
\* and the handler that runs is one whose member of the request is set; a
\* request with no member set ends serveControl with "invalid request", with
\* no handler run for it and no response sent for it.
C9_DispatchExhaustive ==
    /\ [](/\ \A k \in 1..Len(handled) : handled[k] = k
          /\ Len(handled) <= Len(decoded)
          /\ (task["control"] = "running" /\
                control \in {"scan", "save", "stage", "transition", "wipe", "encode"}) =>
                /\ Len(handled) = Len(decoded)
                /\ handled[Len(handled)] = request.id
                /\ control \in {"scan", "save"} => request.Scan
                /\ control = "stage" => request.Stage
                /\ control \in {"transition", "wipe"} => request.Transition
                /\ control = "encode" =>
                      \/ response.type = "scan" /\ request.Scan
                      \/ response.type = "stage" /\ request.Stage
                      \/ response.type = "transition" /\ request.Transition
          /\ NoMember(request) => control = "dispatch"
          /\ taskErr["control"] = <<"invalid request">> =>
                /\ control = "done"
                /\ Len(handled) = Len(decoded) - 1
                /\ Len(Responses) = Len(decoded) - 1)
    /\ [][(NoMember(request) /\ control' # control) =>
            /\ control' = "done"
            /\ taskErr'["control"] = <<"invalid request">>
            /\ handled' = handled
            /\ controlOut' = controlOut]_vars

\* the second request had no member set and ended serveControl
C9_Witness ==
    /\ taskErr["control"] = <<"invalid request">>
    /\ Len(decoded) = 2
    /\ Len(handled) = 1
    /\ Len(Responses) = 1

\* the applier ran, then the stager was wiped once, and nothing else
WipedOnce(events) ==
    /\ Len(events) = 2
    /\ events[1].call = "Transition"
    /\ events[2].call = "wipe"

\* C10: what localEndpoint.transition returns and what handleTransition hands
\* to serveControl was preceded by one run of the applier followed by one
\* wipe of the stager, and consists of the applier's results and problems
\* (and, for localEndpoint.transition, a nil error), whether the wipe
\* succeeded or not.
C10_TransitionWipesOnce ==
    /\ \A p \in Callers :
          ret[p].op = "transition" =>
             /\ WipedOnce(ret[p].events)
             /\ ret[p].results = ret[p].id
             /\ ret[p].problems = ret[p].events[1].problems
             /\ ret[p].err = Nil
    /\ (control = "encode" /\ response.type = "transition") =>
             /\ WipedOnce(response.events)
             /\ response.changes = request.id
             /\ response.problems = response.events[1].problems

\* a transition with a problem has returned after a failed wipe
C10_Witness ==
    \E p \in Callers :
       /\ ret[p].op = "transition"
       /\ ret[p].problems > 0
       /\ ~ret[p].events[2].ok
       /\ ret[p].stager # {}

\* ------------------------------------------------------------------------
\* Properties of transition and stage
\* ------------------------------------------------------------------------
\* C11: problems never abort a transition.  localEndpoint.transition returns
\* a nil error with the results and the problems of the applier, whatever
\* their number.  In serveControl a transition request never ends the control
\* task before its response is encoded; the response carries the changes and
\* the problems; once it is encoded serveControl decodes the next request,
\* and the control task ends on a transition only with the error of a failed
\* encoding.
C11_TransitionProblemsNeverAbort ==
    /\ [](/\ \A p \in Callers :
                ret[p].op = "transition" =>
                   /\ ret[p].err = Nil
                   /\ ret[p].results = ret[p].id
                   /\ ret[p].problems \in 0..MaxProblems
          /\ (control = "encode" /\ response.type = "transition") =>
                /\ response.changes = request.id
                /\ response.problems \in 0..MaxProblems)
    /\ [][/\ (control = "transition" /\ control' # control) =>
                (control' = "wipe" /\ task'["control"] = "running")
          /\ (control = "wipe" /\ control' # control) =>
                (control' = "encode" /\ task'["control"] = "running")
          /\ (control = "encode" /\ response.type = "transition" /\ control' # control) =>
                \/ /\ control' = "decode"
                   /\ task'["control"] = "running"
                   /\ controlOut' = Append(controlOut, [type |-> "response", for |-> request.id])
                \/ /\ control' = "done"
                   /\ controlOut' = controlOut
                   /\ taskErr'["control"] =
                         <<"unable to send transition response", "i/o failure">>]_vars

\* the response to a transition with problems is about to be encoded while
\* the next request is waiting
C11_Witness ==
    /\ control = "encode"
    /\ response.type = "transition"
    /\ response.problems > 0
    /\ controlIn > 0

\* the indices of the requested paths whose digest the stager cannot provide
Missing(digests, files) == {i \in 1..Len(digests) : digests[i] \notin files}

\* the requested paths at the indices of Missing, in request order
MissingPaths(paths, digests, files) ==
    [k \in 1..Cardinality(Missing(digests, files)) |->
        paths[CHOOSE i \in Missing(digests, files) :
                 Cardinality({j \in Missing(digests, files) : j < i}) = k - 1]]

\* C12: when stage returns without error, the unstaged paths it returns are
\* the requested paths whose digest the stager could not provide, in request
\* order, with one signature for each and a receiver; when the stager could
\* provide every path it returns no paths, no signatures, no receiver and no
\* error; and it returns an error only when paths were unstaged and the
\* receiver could not be created.
C12_StageReturnsUnstaged ==
    \A p \in Callers :
       ret[p].op = "stage" =>
          LET missing == MissingPaths(ret[p].paths, ret[p].digests, ret[p].stager)
          IN  /\ ret[p].err = Nil =>
                    /\ ret[p].unstaged = missing
                    /\ Len(ret[p].signatures) = Len(missing)
                    /\ ret[p].receiver = (missing # <<>>)
              /\ ret[p].err # Nil =>
                    /\ missing # <<>>
                    /\ ret[p].err = <<"unable to create rsync receiver", "receiver failure">>
                    /\ ret[p].unstaged = <<>>
                    /\ ret[p].signatures = <<>>
                    /\ ~ret[p].receiver

\* of two requested paths the first was already staged and the second is
\* returned as unstaged
C12_Witness ==
    \E p \in Callers :
       /\ ret[p].op = "stage"
       /\ ret[p].err = Nil
       /\ Len(ret[p].paths) = 2
       /\ ret[p].digests[1] \in ret[p].stager
       /\ ret[p].unstaged = <<ret[p].paths[2]>>

Accessing ==
    {p \in Callers :
        \/ pc[p] \in {"check", "scan", "apply"}
        \/ pc[p] = "scanned" /\ frame[p].err = Nil}

\* background Goroutines whose next step reads cache or writes cacheWriteError
WritersAccessing == {w \in writers : w.stage \in {"spawned", "writing"}}

\* C14 as stated: whenever a Goroutine is about to read or write one of the
\* scan fields, scanLock is held.
C14_FieldsAccessedUnderLock ==
    (Accessing # {} \/ WritersAccessing # {}) => scanLock

\* ------------------------------------------------------------------------
\* The cache at startup
\* ------------------------------------------------------------------------
\* C15 as stated: in ServeEndpoint and in newLocalEndpoint alike, once the
\* cache has been loaded the cache of the endpoint passes validation, so no
\* endpoint serves with a cache that fails validation.
C15_StartsWithValidCache ==
    /\ (program # "serve") => EnsureValid(cache)
    /\ (program = "serve" /\ cacheLoaded) => EnsureValid(endpointCache)

\* ------------------------------------------------------------------------
\* The rsync client state task
\* ------------------------------------------------------------------------
\* C16 as stated: the first poll passes index 0 and every later poll the index
\* that the poll before it returned, so the indices of the polled states
\* increase; every polled state is transmitted once, in poll order, in a
\* message that carries the state together with its index; and the task ends
\* only with the error of a failed poll or of a failed transmission.
C16_StatesTaggedInPollOrder ==
    /\ polls # <<>> => polls[1].from = 0
    /\ \A i \in 2..Len(polls) :
          /\ polls[i].from = polls[i - 1].index
          /\ polls[i].index > polls[i - 1].index
    /\ Len(polls) = Len(statesSent) + (IF polled # 0 THEN 1 ELSE 0)
    /\ \A i \in 1..Len(statesSent) :
          statesSent[i] = [state |-> polls[i].state, index |-> polls[i].index]
    /\ task["state"] = "done" =>
          taskErr["state"] \in {<<"unable to poll client state", "polling cancelled">>,
                                <<"unable to transmit state", "i/o failure">>}

\* ------------------------------------------------------------------------
\* The order of initialization in ServeEndpoint
\* ------------------------------------------------------------------------
\* the steps of ServeEndpoint in the order of its code
StartupOrder ==
    <<"start", "decodeInit", "validate", "normalize", "cachePath", "loadCache",
      "newStager", "sendInit", "spawn", "select">>

Position(step) == CHOOSE i \in 1..Len(StartupOrder) : StartupOrder[i] = step

\* the number of initialization responses among the first n messages sent
\* on the control channel
InitResponsesSent(out) ==
    Cardinality({i \in 1..Len(out) : out[i] = Message(InitResponse)})

\* C17: the initialization response is sent at most once and is the first
\* message on the control channel; it is sent by the step that follows the
\* validation of the request, the normalization of the root, the loading of
\* the cache and the creation of the stager, in that order, and that precedes
\* the start of the four tasks; a task is started and a request is decoded
\* only after it was sent; and when sending it fails ServeEndpoint returns
\* the wrapped error with no task started.
C17_InitializationOrder ==
    /\ [](/\ InitResponsesSent(controlOut) <= 1
          /\ InitResponsesSent(controlOut) = 1 =>
                /\ controlOut[1] = Message(InitResponse)
                /\ init # NoInit
                /\ InitError(init) = Nil
                /\ cacheLoaded
                /\ stagerCreated
          /\ (\E t \in Tasks : task[t] # "unstarted") => InitResponsesSent(controlOut) = 1
          /\ (decoded # <<>> \/ control # "decode") => InitResponsesSent(controlOut) = 1
          /\ serveResult = <<"unable to send initialization response", "i/o failure">> =>
                /\ \A t \in Tasks : task[t] = "unstarted"
                /\ controlOut = <<>>
                /\ decoded = <<>>)
    /\ [][/\ serve' # serve =>
                \/ serve' = "returned"
                \/ Position(serve') = Position(serve) + 1
          /\ InitResponsesSent(controlOut') # InitResponsesSent(controlOut) =>
                (serve = "sendInit" /\ serve' = "spawn")
          /\ (serve = "sendInit" /\ serve' # serve /\ controlOut' = controlOut) =>
                /\ serve' = "returned"
                /\ serveResult' = <<"unable to send initialization response", "i/o failure">>
          /\ task' # task /\ (\E t \in Tasks : task[t] = "unstarted") =>
                /\ serve = "spawn"
                /\ \A t \in Tasks : task[t] = "unstarted" /\ task'[t] = "running"]_vars

\* the four tasks run, the initialization response was the first message and
\* a request has been decoded and answered
C17_Witness ==
    /\ \A t \in Tasks : task[t] = "running"
    /\ Len(controlOut) > 1
    /\ controlOut[1] = Message(InitResponse)
    /\ decoded # <<>>

\* ------------------------------------------------------------------------
\* The cache of endpoint.handleScan
\* ------------------------------------------------------------------------
\* the error with which serveControl returns when the cache cannot be saved
SaveFailure == <<"unable to perform scan", "unable to save cache", "write failure">>

\* C18: once loaded, the cache of the endpoint changes only to the cache of
\* the scan being handled and only in the step of handleScan that has saved
\* that cache to the cache file; when the save fails the cache and the cache file keep
\* their values, nothing is sent on the control channel, and the control task
\* ends with the save error, after which no response to that request is ever
\* sent; when the scanner fails the control task keeps running with the
\* cache unchanged and goes on to encode a try-again response.
C18_CacheReplacedAfterSave ==
    /\ [](taskErr["control"] = SaveFailure =>
             /\ task["control"] = "done"
             /\ \A i \in 1..Len(controlOut) : controlOut[i].for # decoded[Len(decoded)])
    /\ [][/\ (cacheLoaded /\ endpointCache' # endpointCache) =>
                /\ control = "save"
                /\ endpointCache' = request.id
                /\ endpointCacheFile' = request.id
          /\ (control = "save" /\ control' # control /\ endpointCacheFile' # request.id) =>
                /\ endpointCache' = endpointCache
                /\ endpointCacheFile' = endpointCacheFile
                /\ controlOut' = controlOut
                /\ control' = "done"
                /\ task'["control"] = "done"
                /\ taskErr'["control"] = SaveFailure
          /\ (control = "scan" /\ control' # control) =>
                /\ task'["control"] = "running"
                /\ endpointCache' = endpointCache
                /\ control' # "save" =>
                      (control' = "encode" /\ response'.TryAgain)]_vars

\* after a scan that replaced the cache, the save of a second scan has
\* failed: the control task has ended and the cache is still the first one
C18_Witness ==
    /\ taskErr["control"] = SaveFailure
    /\ Len(decoded) = 2
    /\ endpointCache = 1
    /\ endpointCacheFile = 1

\* ------------------------------------------------------------------------
\* The releases of scanLock
\* ------------------------------------------------------------------------
\* who has taken scanLock and not yet released it: a caller between Lock and
\* its return or the start of the background Goroutine, or that Goroutine
LockHolders ==
    Cardinality({p \in Callers : pc[p] \in {"check", "scan", "scanned", "spawn"}})
       + Cardinality(writers)

\* C19: Unlock is never called on a lock that is not held; the lock is held
\* exactly while one acquisition is unreleased, whichever path the scan
\* takes; the lock is always eventually released when the Goroutines keep
\* running and the save terminates; and every caller that waits in Lock
\* eventually gets the lock.
C19_LockReleasedOnce ==
    /\ [](~fatal)
    /\ [](LockHolders = IF scanLock THEN 1 ELSE 0)
    /\ [][scanLock' # scanLock => LockHolders' # LockHolders]_vars
    /\ scanLock ~> ~scanLock
    /\ \A p \in Callers : (pc[p] = "lock") ~> (pc[p] = "check")

\* a caller waits in Lock while the background Goroutine of another scan,
\* whose save has failed, is about to release the lock
C19_Witness ==
    /\ \E p \in Callers : pc[p] = "lock"
    /\ \E w \in writers : w.stage = "unlock"
    /\ cacheWriteError # Nil
    /\ scanLock

\* ------------------------------------------------------------------------
\* The error channels of ServeEndpoint
\* ------------------------------------------------------------------------
\* C20: an error channel never holds more than one error; the channel of a
\* running task is empty, so that the send of its error finds room; an error
\* enters a channel only by the return of the task of that channel, which
\* ends the task; and when ServeEndpoint has returned with tasks still
\* running, eventually every task has ended with its error delivered: the one
\* that ServeEndpoint received and returned, the others left in their channels.
C20_ErrorDeliveryNeverBlocks ==
    /\ [](\A t \in Tasks :
             /\ Len(errors[t]) <= 1
             /\ task[t] = "running" => errors[t] = <<>>
             /\ errors[t] # <<>> => (task[t] = "done" /\ errors[t] = <<taskErr[t]>>))
    /\ [][\A t \in Tasks :
             Len(errors'[t]) > Len(errors[t]) =>
                /\ task[t] = "running"
                /\ task'[t] = "done"
                /\ \A u \in Tasks \ {t} : errors'[u] = errors[u] /\ task'[u] = task[u]]_vars
    /\ (serve = "returned" /\ \E t \in Tasks : task[t] = "running") ~>
          (\A t \in Tasks :
              /\ task[t] = "done"
              /\ errors[t] \in {<<>>, <<taskErr[t]>>}
              /\ errors[t] = <<>> => serveResult = Wrap(taskErr[t], FailureLabel(t)))

\* ServeEndpoint has returned with the error of one task and the three other
\* tasks have each left their error in their own channel
C20_Witness ==
    /\ serve = "returned"
    /\ \E t \in Tasks :
          /\ task[t] = "done"
          /\ errors[t] = <<>>
          /\ \A u \in Tasks \ {t} : task[u] = "done" /\ Len(errors[u]) = 1

\* ------------------------------------------------------------------------
\* The cancellation of the watch task
\* ------------------------------------------------------------------------
\* C21: serveContext is cancelled only by the return of ServeEndpoint; the
\* error "cancelled" is returned only by the watch task, only once the
\* context is cancelled, and by a step that transmits nothing; a tick is
\* transmitted only by the running watch task, which keeps running; and
\* ServeEndpoint never returns the watch task's "cancelled" error.
C21_WatchCancellation ==
    /\ [](/\ serveCancelled => serve = "returned"
          /\ \A t \in Tasks :
                taskErr[t] = <<"cancelled">> => (t = "watch" /\ serveCancelled)
          /\ serveResult # <<"watch server failure", "cancelled">>)
    /\ [][/\ serveCancelled' # serveCancelled =>
                (serve # "returned" /\ serve' = "returned" /\ serveCancelled')
          /\ (task["watch"] = "running" /\ taskErr'["watch"] = <<"cancelled">>) =>
                /\ serveCancelled
                /\ task'["watch"] = "done"
                /\ ticked' = ticked
                /\ \A t \in Tasks \ {"watch"} : task'[t] = task[t]
          /\ ticked' # ticked =>
                /\ task["watch"] = "running"
                /\ task' = task
                /\ ~connectionClosed]_vars

\* ServeEndpoint has returned the failure of another task and the watch
\* task, which had transmitted a tick, has ended with "cancelled"
C21_Witness ==
    /\ serve = "returned"
    /\ ticked
    /\ task["watch"] = "done"
    /\ taskErr["watch"] = <<"cancelled">>
    /\ serveResult[1] # "watch server failure"

\* ------------------------------------------------------------------------
\* localEndpoint.poll
\* ------------------------------------------------------------------------
\* C22: a poll call returns an error only after its receive found the events
\* channel closed and empty, and then the error is "endpoint watcher
\* terminated"; it returns nil after it received an event and after its
\* context was cancelled; a call takes at most one event from the channel
\* and only the call that returns with the event takes it; the channel never
\* holds more than one event, and the events sent are those received and
\* the one pending; and once the channel is closed every poll call waiting
\* in its select eventually returns.
C22_PollReturns ==
    /\ [](/\ watch.events \in 0..WatchEventsCapacity
          /\ watch.sent = watch.received + watch.events
          /\ watch.closed => watch.cancelled
          /\ \A p \in Callers :
                ret[p].op = "poll" =>
                   /\ ret[p].branch \in {"event", "closed", "done"}
                   /\ ret[p].err # Nil <=> ret[p].branch = "closed"
                   /\ ret[p].err # Nil =>
                         /\ ret[p].err = <<"endpoint watcher terminated">>
                         /\ ret[p].closed
                         /\ ret[p].pending = 0
                   /\ ret[p].branch = "done" => ret[p].done
                   /\ ret[p].branch = "event" => ret[p].pending > 0)
    /\ [][watch.events' # watch.events =>
             \/ /\ watch.events' = watch.events + 1
                /\ pc' = pc
                /\ ~watch.closed
             \/ /\ watch.events' = watch.events - 1
                /\ \E p \in Callers :
                      /\ pc[p] = "select"
                      /\ pc'[p] = "idle"
                      /\ ret'[p].branch = "event"
                      /\ ret'[p].err = Nil
                      /\ \A q \in Callers \ {p} : pc'[q] = pc[q]]_vars
    /\ \A p \in Callers : (pc[p] = "select" /\ watch.closed) ~> (pc[p] = "idle")

\* after shutdown, with the channel closed, one poll call has returned the
\* last pending event with a nil error and another has returned the error
C22_Witness ==
    /\ watch.closed
    /\ \E p, q \in Callers :
          /\ ret[p].op = "poll" /\ ret[p].branch = "event" /\ ret[p].closed
          /\ ret[q].op = "poll" /\ ret[q].branch = "closed" /\ ~ret[q].done

====
